---------------------------- MODULE Spec2Model ----------------------------
(***************************************************************************)
(* Janggi Analyst: the match state kept by the App component (board, turn, *)
(* history, started flag, engine controls), the rule engine of             *)
(* janggiLogic (initBoard, isValidMove, generateFen), the engine-output    *)
(* listener, and the engine process wrapper of the main process.           *)
(*                                                                         *)
(* Boards are JavaScript arrays, i.e. objects with an identity: the model  *)
(* keeps them in a heap and the state holds references, so that sharing    *)
(* between the live board and the snapshots of the history is visible.     *)
(***************************************************************************)
EXTENDS Integers, Sequences, FiniteSets, TLC

\* ------------------------------------------------------------------ bounds

\* Moves and passes are offered while the history is shorter than this.
MaxHistory == 3

\* Move tokens of up to this many characters are handed to applyEngineMove.
MaxTokenLen == 5

\* Search requests the engine may hold unanswered before no further one is
\* offered.
MaxOutstanding == 2

\* Engine processes spawned in one run of the main process.
MaxProcesses == 3

\* Lines written to the stdin of one engine process.
MaxStdin == 5

\* The squares a user clicks on: the two soldiers of the left edge file and the
\* squares between them.
ClickCells == { <<r, 0>> : r \in 3..6 }

\* ------------------------------------------------------- types (types.ts)

RED == "r"

BLUE == "b"

Teams == {RED, BLUE}

PieceTypes == {"cha", "ma", "sang", "po", "sa", "jang", "jol"}

SetupTypes == {"wan", "oreun", "an", "bak"}

GameModes == {"PvP", "CvC", "PvC", "CvP"}

\* null in a board cell
Null == [team |-> "-", type |-> "-"]

\* p(team, type)
p(team, type) == [team |-> team, type |-> type]

Rows == 0..9

Cols == 0..8

\* the array [] the board state starts with: it has no rows
EmptyArray == << >>

\* ------------------------------------------------- janggiLogic: initBoard

\* variant: the inner and the outer elephant arrangements taken for each other
InnerAnBak(setup) ==
    CASE setup = "wan"   -> <<"ma", "sang", "ma", "sang">>
      [] setup = "oreun" -> <<"sang", "ma", "sang", "ma">>
      [] setup = "an"    -> <<"sang", "ma", "ma", "sang">>
      [] setup = "bak"   -> <<"ma", "sang", "sang", "ma">>

\* the four inner home-rank pieces, files 1, 2, 6, 7
Inner(setup) ==
    CASE setup = "wan"   -> <<"ma", "sang", "ma", "sang">>
      [] setup = "oreun" -> <<"sang", "ma", "sang", "ma">>
      [] setup = "an"    -> <<"ma", "sang", "sang", "ma">>
      [] setup = "bak"   -> <<"sang", "ma", "ma", "sang">>

\* setupHomeRank(row, team, setup): the cells it writes, as a partial map
HomeRankCell(row, team, setup, r, c) ==
    IF r # row THEN Null
    ELSE IF c = 0 \/ c = 8 THEN p(team, "cha")
    ELSE IF c = 1 THEN p(team, Inner(setup)[1])
    ELSE IF c = 2 THEN p(team, Inner(setup)[2])
    ELSE IF c = 6 THEN p(team, Inner(setup)[3])
    ELSE IF c = 7 THEN p(team, Inner(setup)[4])
    ELSE Null

\* the cells written before the home ranks: pawns, cannons, kings, guards
FixedCell(r, c) ==
    IF r = 3 /\ c % 2 = 0 THEN p(BLUE, "jol")
    ELSE IF r = 6 /\ c % 2 = 0 THEN p(RED, "jol")
    ELSE IF r = 2 /\ (c = 1 \/ c = 7) THEN p(BLUE, "po")
    ELSE IF r = 7 /\ (c = 1 \/ c = 7) THEN p(RED, "po")
    ELSE IF r = 1 /\ c = 4 THEN p(BLUE, "jang")
    ELSE IF r = 0 /\ (c = 3 \/ c = 5) THEN p(BLUE, "sa")
    ELSE IF r = 8 /\ c = 4 THEN p(RED, "jang")
    ELSE IF r = 9 /\ (c = 3 \/ c = 5) THEN p(RED, "sa")
    ELSE Null

\* initBoard(redSetup, blueSetup): later writes win over earlier ones
InitBoard(rs, bs) ==
    [r \in Rows |-> [c \in Cols |->
        IF HomeRankCell(9, RED, rs, r, c) # Null THEN HomeRankCell(9, RED, rs, r, c)
        ELSE IF HomeRankCell(0, BLUE, bs, r, c) # Null THEN HomeRankCell(0, BLUE, bs, r, c)
        ELSE FixedCell(r, c)]]

\* ----------------------------------------------- janggiLogic: isValidMove

Sign(x) == IF x > 0 THEN 1 ELSE IF x < 0 THEN -1 ELSE 0

Abs(x) == IF x < 0 THEN -x ELSE x

\* board[r][c] for a row r the board has: the cell, or undefined (falsy, here
\* Null) when the row has no column c
At(b, r, c) == IF c \in DOMAIN b[r] THEN b[r][c] ELSE Null

\* the loop of countObstacles from cell (r, c), stepping (dy, dx) up to (ey, ex)
RECURSIVE CountFrom(_, _, _, _, _, _, _)
CountFrom(b, r, c, dy, dx, ey, ex) ==
    IF r = ey /\ c = ex THEN 0
    ELSE (IF At(b, r, c) # Null THEN 1 ELSE 0)
         + CountFrom(b, r + dy, c + dx, dy, dx, ey, ex)

countObstacles(b, start, end) ==
    LET dy == Sign(end[1] - start[1])
        dx == Sign(end[2] - start[2])
    IN  CountFrom(b, start[1] + dy, start[2] + dx, dy, dx, end[1], end[2])

\* variant: a chariot is stopped by two pieces between, not by one
hasObstacleAtTwo(b, start, end) == countObstacles(b, start, end) > 1

\* countObstacles(board, start, end) > 0
hasObstacle(b, start, end) == countObstacles(b, start, end) > 0

inPalace(r, c, team) ==
    IF c < 3 \/ c > 5 THEN FALSE
    ELSE IF team = BLUE THEN r >= 0 /\ r <= 2
    ELSE IF team = RED THEN r >= 7 /\ r <= 9
    ELSE FALSE

\* variant: a cannon jumps any number of pieces but none
SomeScreen(b, start, end) == countObstacles(b, start, end) >= 1

\* countObstacles(board, start, end) === 1
OneScreen(b, start, end) == countObstacles(b, start, end) = 1

\* variant: a target of the mover's own side is not turned down
OwnTargetNever(piece, target) == FALSE

\* target && target.team === piece.team
OwnTarget(piece, target) == target # Null /\ target.team = piece.team

\* variant: a soldier is never held to be stepping backward
jolBackwardNever(team, dy) == FALSE

\* piece.team === BLUE && dy < 0, piece.team === RED && dy > 0: a single step
\* of a soldier towards its own home rank
jolBackward(team, dy) == (team = BLUE /\ dy < 0) \/ (team = RED /\ dy > 0)

\* variant: the leg of a horse is the cell diagonally next to the source
maLegDiagonal(start, end) ==
    <<start[1] + Sign(end[1] - start[1]), start[2] + Sign(end[2] - start[2])>>

\* the cell a horse move reads: board[sy + dy / 2][sx] for a move of two rows,
\* board[sy][sx + dx / 2] for a move of two columns
maLeg(start, end) ==
    LET dy == end[1] - start[1]
        dx == end[2] - start[2]
    IN  IF Abs(dy) = 2 THEN <<start[1] + (dy \div 2), start[2]>>
        ELSE <<start[1], start[2] + (dx \div 2)>>

\* variant: the first cell of an elephant move lies one step along the shorter
\* displacement, the second one diagonal step further
sangPathShortFirst(start, end) ==
    LET dy == end[1] - start[1]
        dx == end[2] - start[2]
    IN  IF Abs(dy) = 3
        THEN << <<start[1], start[2] + (dx \div 2)>>,
                <<start[1] + (dy \div 3), start[2] + (dx \div 2) * 2>> >>
        ELSE << <<start[1] + (dy \div 2), start[2]>>,
                <<start[1] + (dy \div 2) * 2, start[2] + (dx \div 3)>> >>

\* the two cells an elephant move reads: board[sy + dy / 3][sx] and
\* board[sy + (dy / 3) * 2][sx + dx / 2] for a move of three rows,
\* board[sy][sx + dx / 3] and board[sy + dy / 2][sx + (dx / 3) * 2] for a move
\* of three columns
sangPath(start, end) ==
    LET dy == end[1] - start[1]
        dx == end[2] - start[2]
    IN  IF Abs(dy) = 3
        THEN << <<start[1] + (dy \div 3), start[2]>>,
                <<start[1] + (dy \div 3) * 2, start[2] + (dx \div 2)>> >>
        ELSE << <<start[1], start[2] + (dx \div 3)>>,
                <<start[1] + (dy \div 2), start[2] + (dx \div 3) * 2>> >>

\* variant: every cell counts as a palace centre
isCenterAny(y, x) == TRUE

\* isCenterStart, isCenterEnd: the cell is the centre of one of the palaces
isCenter(y, x) == (y = 1 /\ x = 4) \/ (y = 8 /\ x = 4)

\* isValidMove raises a TypeError: board[sy][sx] is read on a board without row
\* sy, or, once the piece has passed its test, board[ey][ex] without row ey
isValidMoveThrows(b, start, end, t) ==
    /\ start # end
    /\ \/ start[1] \notin DOMAIN b
       \/ /\ At(b, start[1], start[2]) # Null
          /\ At(b, start[1], start[2]).team = t
          /\ end[1] \notin DOMAIN b

\* isValidMove(board, start, end, turn), on the contents b of a board, when it
\* returns
isValidMove(b, start, end, t) ==
    LET sy == start[1]
        sx == start[2]
        ey == end[1]
        ex == end[2]
        piece == At(b, sy, sx)
        target == At(b, ey, ex)
        dy == ey - sy
        dx == ex - sx
        absDy == Abs(dy)
        absDx == Abs(dx)
    IN  IF sy = ey /\ sx = ex THEN FALSE
        ELSE IF piece = Null \/ piece.team # t THEN FALSE
        ELSE IF OwnTarget(piece, target) THEN FALSE
        ELSE CASE piece.type = "cha" ->
                    IF (sx = ex \/ sy = ey) /\ ~hasObstacle(b, start, end) THEN TRUE
                    ELSE IF inPalace(sy, sx, piece.team) /\ inPalace(ey, ex, piece.team)
                            /\ absDx = absDy /\ ~hasObstacle(b, start, end) THEN TRUE
                    ELSE FALSE
               [] piece.type = "jol" ->
                    IF absDx + absDy > 1
                    THEN inPalace(sy, sx, piece.team) /\ inPalace(ey, ex, piece.team)
                         /\ absDx = 1 /\ absDy = 1
                         /\ ((piece.team = BLUE /\ dy > 0) \/ (piece.team = RED /\ dy < 0))
                    ELSE IF jolBackward(piece.team, dy) THEN FALSE
                    ELSE TRUE
               [] piece.type = "ma" ->
                    IF (absDx = 1 /\ absDy = 2) \/ (absDx = 2 /\ absDy = 1)
                    THEN At(b, maLeg(start, end)[1], maLeg(start, end)[2]) = Null
                    ELSE FALSE
               [] piece.type = "sang" ->
                    IF (absDx = 2 /\ absDy = 3) \/ (absDx = 3 /\ absDy = 2)
                    THEN \A i \in 1..2 :
                            At(b, sangPath(start, end)[i][1], sangPath(start, end)[i][2]) = Null
                    ELSE FALSE
               [] piece.type \in {"sa", "jang"} ->
                    IF ~inPalace(ey, ex, piece.team) THEN FALSE
                    ELSE IF absDx + absDy = 1 THEN TRUE
                    ELSE IF absDx = 1 /\ absDy = 1
                    THEN isCenter(sy, sx) \/ isCenter(ey, ex)
                    ELSE FALSE
               [] piece.type = "po" ->
                    IF target # Null /\ target.type = "po" THEN FALSE
                    ELSE IF sx = ex \/ sy = ey THEN OneScreen(b, start, end)
                    ELSE IF inPalace(sy, sx, piece.team) /\ inPalace(ey, ex, piece.team)
                            /\ absDx = absDy
                    THEN OneScreen(b, start, end)
                    ELSE FALSE
               [] OTHER -> FALSE

\* ------------------------------------------------ strings of engine output

\* A string is the tuple of its characters.
Digits == <<"0", "1", "2", "3", "4", "5", "6", "7", "8", "9">>

IsDigit(ch) == \E i \in 1..10 : Digits[i] = ch

DigitVal(ch) == (CHOOSE i \in 1..10 : Digits[i] = ch) - 1

\* the value isNaN() is true of: NaN, and undefined
NaN == -1

\* s[i] of JavaScript: the character, or undefined (here "") past the end
CharAt(s, i) == IF i + 1 \in DOMAIN s THEN s[i + 1] ELSE ""

\* output.startsWith(prefix)
StartsWith(s, prefix) ==
    Len(s) >= Len(prefix) /\ SubSeq(s, 1, Len(prefix)) = prefix

\* the places where pattern occurs in s
Occurrences(s, pattern) ==
    { i \in 1..Len(s) : i + Len(pattern) - 1 <= Len(s)
                        /\ SubSeq(s, i, i + Len(pattern) - 1) = pattern }

\* output.includes(pattern)
Includes(s, pattern) == Occurrences(s, pattern) # {}

SetMin(S) == CHOOSE x \in S : \A y \in S : x <= y

\* output.split(' ')[1]: the text between the first space and the next one,
\* or undefined (here <<"undefined">>) when the output holds no space
Undefined == <<"undefined">>

SplitPart1(s) ==
    LET sp == { i \in 1..Len(s) : s[i] = " " }
    IN  IF sp = {} THEN Undefined
        ELSE LET first == SetMin(sp)
                 rest == { i \in sp : i > first }
                 stop == IF rest = {} THEN Len(s) + 1 ELSE SetMin(rest)
             IN  SubSeq(s, first + 1, stop - 1)

\* the run of digits of s that starts at place i
RECURSIVE DigitRun(_, _)
DigitRun(s, i) ==
    IF i <= Len(s) /\ IsDigit(s[i]) THEN <<s[i]>> \o DigitRun(s, i + 1) ELSE << >>

\* parseInt(digits, 10) of a non-empty run of digits
RECURSIVE DigitsValue(_)
DigitsValue(ds) ==
    IF ds = << >> THEN 0
    ELSE DigitsValue(SubSeq(ds, 1, Len(ds) - 1)) * 10 + DigitVal(ds[Len(ds)])

\* output.match(/<token> (-?\d+)/): the places where the whole pattern matches
NumberMatches(s, token) ==
    { i \in Occurrences(s, token \o <<" ">>) :
        LET j == i + Len(token) + 1
        IN  \/ DigitRun(s, j) # << >>
            \/ (CharAt(s, j - 1) = "-" /\ DigitRun(s, j + 1) # << >>) }

\* match[1] of the leftmost match, as [neg, digits]
NumberMatch(s, token) ==
    LET i == SetMin(NumberMatches(s, token))
        j == i + Len(token) + 1
    IN  IF CharAt(s, j - 1) = "-"
        THEN [neg |-> TRUE, digits |-> DigitRun(s, j + 1)]
        ELSE [neg |-> FALSE, digits |-> DigitRun(s, j)]

\* the decimal digits of a natural number
RECURSIVE NatStr(_)
NatStr(n) == IF n < 10 THEN <<Digits[n + 1]>> ELSE NatStr(n \div 10) \o <<Digits[(n % 10) + 1]>>

\* (raw / 100).toFixed(2) for the integer raw = parseInt(match[1], 10)
ToFixed2(m) ==
    LET v == DigitsValue(m.digits)
    IN  (IF m.neg /\ v # 0 THEN <<"-">> ELSE << >>)
        \o NatStr(v \div 100) \o <<".">>
        \o <<Digits[((v % 100) \div 10) + 1], Digits[(v % 10) + 1]>>

\* `Mate ${match[1]}`: the matched text itself
MateStr(m) ==
    <<"M", "a", "t", "e", " ">> \o (IF m.neg THEN <<"-">> ELSE << >>) \o m.digits

ScoreCp == <<"s", "c", "o", "r", "e", " ", "c", "p">>

ScoreMate == <<"s", "c", "o", "r", "e", " ", "m", "a", "t", "e">>

BestMove == <<"b", "e", "s", "t", "m", "o", "v", "e">>

NoneToken == <<"(", "n", "o", "n", "e", ")">>

ZeroScore == <<"0", ".", "0", "0">>

\* ------------------------------------------- App: applyEngineMove (decode)

colMap(ch) ==
    CASE ch = "a" -> 0 [] ch = "b" -> 1 [] ch = "c" -> 2 [] ch = "d" -> 3
      [] ch = "e" -> 4 [] ch = "f" -> 5 [] ch = "g" -> 6 [] ch = "h" -> 7
      [] ch = "i" -> 8 [] OTHER -> NaN

\* variant: the rank digit taken as the row
RowOfUnflipped(ch) == IF IsDigit(ch) THEN DigitVal(ch) ELSE NaN

\* 9 - parseInt(ch, 10) for one character (or undefined)
RowOf(ch) == IF IsDigit(ch) THEN 9 - DigitVal(ch) ELSE NaN

\* sr, sc, er, ec of applyEngineMove
DecodeMove(moveStr) ==
    [sr |-> RowOf(CharAt(moveStr, 1)), sc |-> colMap(CharAt(moveStr, 0)),
     er |-> RowOf(CharAt(moveStr, 3)), ec |-> colMap(CharAt(moveStr, 2))]

\* !isNaN(sr) && !isNaN(sc) && !isNaN(er) && !isNaN(ec)
Decodes(moveStr) ==
    LET d == DecodeMove(moveStr)
    IN  d.sr # NaN /\ d.sc # NaN /\ d.er # NaN /\ d.ec # NaN

\* ------------------------------------------------ janggiLogic: generateFen

\* the letters of one side, by piece type
FenLetters(team) ==
    IF team = RED
    THEN [cha |-> "R", ma |-> "N", sang |-> "E", po |-> "C", sa |-> "A", jang |-> "K",
          jol |-> "P"]
    ELSE [cha |-> "r", ma |-> "n", sang |-> "e", po |-> "c", sa |-> "a", jang |-> "k",
          jol |-> "p"]

\* variant: every piece written with the letter of the Red piece
fenMapRed(piece) == FenLetters(RED)[piece.type]

\* fenMap[`${piece.team}-${piece.type}`]
fenMap(piece) == FenLetters(piece.team)[piece.type]

\* rowStr += emptyCount, when emptyCount > 0
Flush(rowStr, emptyCount) ==
    IF emptyCount > 0 THEN rowStr \o NatStr(emptyCount) ELSE rowStr

\* the loop over the columns of row r, from column c on
RECURSIVE FenRowFrom(_, _, _, _, _)
FenRowFrom(b, r, c, rowStr, emptyCount) ==
    IF c >= 9 THEN Flush(rowStr, emptyCount)
    ELSE IF b[r][c] # Null
         THEN FenRowFrom(b, r, c + 1, Flush(rowStr, emptyCount) \o <<fenMap(b[r][c])>>, 0)
         ELSE FenRowFrom(b, r, c + 1, rowStr, emptyCount + 1)

\* rows.join('/') of the rows from row r on
RECURSIVE FenRowsFrom(_, _)
FenRowsFrom(b, r) ==
    IF r >= 9 THEN FenRowFrom(b, r, 0, << >>, 0)
    ELSE FenRowFrom(b, r, 0, << >>, 0) \o <<"/">> \o FenRowsFrom(b, r + 1)

\* turn === 'b' ? 'b' : 'w'
TurnChar(t) == IF t = BLUE THEN "b" ELSE "w"

\* generateFen(board, turn): `${rows.join('/')} ${turnChar} - - 0 1`
generateFen(b, t) ==
    FenRowsFrom(b, 0) \o <<" ", TurnChar(t), " ", "-", " ", "-", " ", "0", " ", "1">>

\* ------------------------------------------------------------ App: state

VARIABLES
    heap,             \* the board arrays alive: reference -> contents
    board,            \* useState board: a reference into heap
    turn,             \* useState turn
    gameStarted,      \* useState gameStarted
    redSetup,         \* useState redSetup
    blueSetup,        \* useState blueSetup
    gameMode,         \* useState gameMode
    selected,         \* useState selected: << >> (null) or <<r, c>>
    history,          \* useState history: sequence of MoveRecord
    engineScore,      \* useState engineScore
    engineEnabled,    \* useState engineEnabled
    timeControl,      \* useState timeControl
    isEngineThinking, \* useRef isEngineThinking.current
    effectPending,    \* a dependency of the board/turn effect changed in the last render
    outstanding,      \* engine: 'go movetime' commands received and not yet answered
    sent,             \* the commands the handler that ran last handed to
                      \* electronAPI.sendCommand, in order
    stale,            \* the board or the side to move has changed while the search
                      \* request sent last was unanswered
    engineProcess,    \* main process: the handle engineProcess, or null
    processes,        \* main process: the engine processes spawned so far, each
                      \* with the lines written to its stdin
    last,             \* the handler that ran last and the branch it took, for the
                      \* handlers whose outcome is the subject of a property
    probe             \* a function of the program applied on its own: its name,
                      \* its arguments and its outcome

vars == <<heap, board, turn, gameStarted, redSetup, blueSetup, gameMode, selected,
          history, engineScore, engineEnabled, timeControl, isEngineThinking,
          effectPending, outstanding, sent, stale, engineProcess, processes, last,
          probe>>

\* what a move application may change
matchVars == <<heap, board, turn, history>>

NoSelection == << >>

\* no function is applied on its own
NoProbe == [fn |-> "-"]

NoOp == [op |-> "-", branch |-> "-", pending |-> FALSE]

Op(name) == [op |-> name, branch |-> "-", pending |-> FALSE]

\* let engineProcess = null
NoProcess == 0

\* the reference of the array [] that useState(board) is given at the first render
InitialBoard == 1

\* the think time useState(timeControl) starts with
InitialTimeControl == 6

\* variant: the functional update of turn returns the side it is given
FlipNone(t) == t

\* prev === 'b' ? 'r' : 'b'
Flip(t) == IF t = BLUE THEN RED ELSE BLUE

\* the contents of the live board
Cells == heap[board]

\* --------------------------------------------------------- closures

\* What a handler created by the latest render reads: the current state.
CurrentClosure ==
    [board |-> board, turn |-> turn, engineEnabled |-> engineEnabled,
     timeControl |-> timeControl]

\* variant: the listener is registered again by every render
ListenerClosureCurrent == CurrentClosure

\* What the engine-output listener reads. It is registered once, by an effect
\* with an empty dependency list, so applyEngineMove and executeMove are the
\* functions of the first render and read that render's state.
ListenerClosure ==
    [board |-> InitialBoard, turn |-> BLUE, engineEnabled |-> FALSE,
     timeControl |-> InitialTimeControl]

\* --------------------------------------------------------- the heap

\* A reference is an identity and nothing else, so the model keeps the heap
\* normalised: the array of the first render is 1, and the arrays referenced by
\* the history records and then by the board state are numbered from 2 in that
\* order. Arrays nothing references any more are garbage and are dropped.

SetMax(S) == CHOOSE x \in S : \A y \in S : x >= y

\* a reference not in use
Fresh(used) == SetMax(used) + 1

\* the references a state holds, in order: the history records', then the board's
RefSeq(b, hist) == [i \in 1..(Len(hist) + 1) |->
                      IF i <= Len(hist) THEN hist[i].prevBoard ELSE b]

\* the number a reference gets
Rank(refs, a) ==
    IF a = InitialBoard THEN InitialBoard
    ELSE LET first == SetMin({ i \in DOMAIN refs : refs[i] = a })
         IN  1 + Cardinality({ refs[j] : j \in 1..first } \ {InitialBoard})

\* the heap h, board reference b and history hist, normalised
Collect(h, b, hist) ==
    LET refs == RefSeq(b, hist)
        live == { refs[i] : i \in DOMAIN refs } \cup {InitialBoard}
    IN  [heap |-> [n \in { Rank(refs, a) : a \in live } |->
                     h[CHOOSE a \in live : Rank(refs, a) = n]],
         board |-> Rank(refs, b),
         history |-> [i \in DOMAIN hist |->
                        [hist[i] EXCEPT !.prevBoard = Rank(refs, hist[i].prevBoard)]]]

\* ------------------------------------------------------------- Init

\* the state of the App component after its first render
AppInit ==
    /\ heap = [a \in {InitialBoard} |-> EmptyArray]
    /\ board = InitialBoard
    /\ turn = BLUE
    /\ gameStarted = FALSE
    /\ redSetup = "an"
    /\ blueSetup = "an"
    /\ gameMode = "PvP"
    /\ selected = NoSelection
    /\ history = << >>
    /\ engineScore = ZeroScore
    /\ engineEnabled = FALSE
    /\ timeControl = InitialTimeControl
    /\ isEngineThinking = FALSE
    /\ effectPending = FALSE
    /\ outstanding = 0
    /\ sent = << >>
    /\ stale = FALSE
    /\ engineProcess = NoProcess
    /\ processes = << >>
    /\ last = NoOp

Init == AppInit /\ probe = NoProbe

\* what a handler leaves in stale: a request it sends is the latest one, and
\* a change of the board or of the side to move leaves an unanswered one behind
StaleNext ==
    IF sent' # << >> THEN FALSE
    ELSE stale \/ (outstanding > 0 /\ (heap'[board'] # Cells \/ turn' # turn))

\* the engine accepts n more 'go' commands within the bound
GoRoom(n) == outstanding + n <= MaxOutstanding

\* No handler runs between a render and the effects it schedules.
Idle == ~effectPending

\* ------------------------------------------------------ App: executeMove

\* prevBoard = board.map(row => [...row]): a new array
PrevBoardRef(cl) == Fresh(DOMAIN heap)

\* variant: newBoard = board, the live array written in place
NewBoardRefInPlace(cl) == cl.board

\* newBoard = board.map(row => [...row]): another new array
NewBoardRef(cl) == Fresh(DOMAIN heap \cup {PrevBoardRef(cl)})

\* newBoard[sr][sc] and newBoard[er][ec] = piece raise a TypeError when the board
\* the closure holds has no such row; nothing has been set by then.
ExecuteMoveThrows(cl, start, end) ==
    start[1] \notin DOMAIN heap[cl.board] \/ end[1] \notin DOMAIN heap[cl.board]

\* `${sr},${sc} > ${er},${ec}`
MoveNotation(start, end) == [pass |-> FALSE, from |-> start, to |-> end]

\* "PASS"
PassNotation == [pass |-> TRUE, from |-> << >>, to |-> << >>]

\* `position fen ` and `go movetime `
PositionFen == <<"p", "o", "s", "i", "t", "i", "o", "n", " ", "f", "e", "n", " ">>

GoMovetime == <<"g", "o", " ", "m", "o", "v", "e", "t", "i", "m", "e", " ">>

\* the two commands of a search request: `position fen ${fen}` and then
\* `go movetime ${timeControl * 1000}`
SearchCommands(fen, seconds) ==
    <<PositionFen \o fen, GoMovetime \o NatStr(seconds * 1000)>>

\* variant: the analysis request names the side that has just moved
AnalysisTurnStale(cl) == cl.turn

\* turn === 'b' ? 'r' : 'b', on the turn of the closure
AnalysisTurn(cl) == IF cl.turn = BLUE THEN RED ELSE BLUE

\* variant: the piece is written to the destination and stays on the source
MovedCellsCopied(src, start, end) ==
    [src EXCEPT ![end[1]][end[2]] = src[start[1]][start[2]]]

\* newBoard[er][ec] = piece; newBoard[sr][sc] = null, on the copy of the cells src
MovedCells(src, start, end) ==
    [src EXCEPT ![end[1]][end[2]] = src[start[1]][start[2]],
                ![start[1]][start[2]] = Null]

\* executeMove(start, end) in the closure cl: the state it sets (history and turn
\* by functional updates of the current state) and the search commands it sends
ExecuteMove(cl, start, end) ==
    LET src == heap[cl.board]
        prevRef == PrevBoardRef(cl)
        newRef == NewBoardRef(cl)
        newCells == MovedCells(src, start, end)
        heap1 == [a \in DOMAIN heap \cup {prevRef, newRef} |->
                    IF a = newRef THEN newCells
                    ELSE IF a = prevRef THEN src
                    ELSE heap[a]]
        hist1 == Append(history, [seq |-> Len(history) + 1,
                                  notation |-> MoveNotation(start, end),
                                  turn |-> cl.turn,
                                  prevBoard |-> prevRef])
        st == Collect(heap1, newRef, hist1)
    IN  [heap |-> st.heap,
         board |-> st.board,
         history |-> st.history,
         turn |-> Flip(turn),
         sends |-> IF cl.engineEnabled THEN 1 ELSE 0,
         commands |-> IF cl.engineEnabled
                      THEN SearchCommands(generateFen(newCells, AnalysisTurn(cl)),
                                          cl.timeControl)
                      ELSE << >>]

\* ------------------------------------------------- App: handleSquareClick

\* the engine-turn guard of handleSquareClick
ClickBlocked ==
    /\ engineEnabled
    /\ gameMode # "PvP"
    /\ \/ gameMode = "CvC"
       \/ gameMode = "PvC" /\ turn = RED
       \/ gameMode = "CvP" /\ turn = BLUE

\* variant: handleSquareClick hands every target square to executeMove
ClickMoveAllowedAlways(from, to) == TRUE

\* the legality test handleSquareClick makes before executeMove
ClickMoveAllowed(from, to) == isValidMove(Cells, from, to, turn)

\* variant: handleSquareClick without its test of gameStarted
ClickGateNoStart == IF ClickBlocked THEN "engine-turn" ELSE "open"

\* the two early returns of handleSquareClick
ClickGate ==
    IF ~gameStarted THEN "not-started"
    ELSE IF ClickBlocked THEN "engine-turn"
    ELSE "open"

\* the branch handleSquareClick(r, c) takes; board[r][c] raises a TypeError on a
\* board without row r
ClickBranch(r, c) ==
    IF ClickGate # "open" THEN ClickGate
    ELSE IF r \notin DOMAIN Cells THEN "throws"
    ELSE IF selected = NoSelection
         THEN IF Cells[r][c] # Null /\ Cells[r][c].team = turn THEN "select" ELSE "no-piece"
    ELSE IF selected = <<r, c>> THEN "deselect"
    ELSE IF Cells[selected[1]][selected[2]] = Null THEN "stale-selection"
    ELSE IF Cells[r][c] # Null /\ Cells[r][c].team = Cells[selected[1]][selected[2]].team
         THEN "switch"
    ELSE IF ClickMoveAllowed(selected, <<r, c>>) THEN "move"
    ELSE "reject"

HandleSquareClick(r, c) ==
    LET br == ClickBranch(r, c)
        m == ExecuteMove(CurrentClosure, selected, <<r, c>>)
    IN  /\ Idle
        /\ UNCHANGED <<probe, engineProcess, processes>>
        /\ sent' = IF br = "move" THEN m.commands ELSE << >>
        /\ last' = IF br \in {"move", "reject", "not-started", "engine-turn"}
                   THEN [op |-> "click", branch |-> br, pending |-> FALSE]
                   ELSE NoOp
        /\ IF br = "move"
           THEN /\ Len(history) < MaxHistory
                /\ GoRoom(m.sends + (IF engineEnabled THEN 1 ELSE 0))
                /\ heap' = m.heap
                /\ board' = m.board
                /\ history' = m.history
                /\ turn' = m.turn
                /\ selected' = NoSelection
                /\ outstanding' = outstanding + m.sends
                /\ effectPending' = TRUE
           ELSE /\ selected' = IF br \in {"select", "switch"} THEN <<r, c>>
                               ELSE IF br \in {"deselect", "reject"} THEN NoSelection
                               ELSE selected
                /\ UNCHANGED <<heap, board, history, turn, outstanding, effectPending>>
        /\ UNCHANGED <<gameStarted, redSetup, blueSetup, gameMode, engineScore,
                       engineEnabled, timeControl, isEngineThinking>>
        /\ stale' = StaleNext

\* ------------------------------------------------------ App: game actions

\* variant: the two setups handed to initBoard in the other order
StartBoardSwapped == InitBoard(blueSetup, redSetup)

\* newBoard = initBoard(redSetup, blueSetup)
StartBoard == InitBoard(redSetup, blueSetup)

StartGame ==
    LET newRef == Fresh(DOMAIN heap)
        heap1 == [a \in DOMAIN heap \cup {newRef} |->
                    IF a = newRef THEN StartBoard ELSE heap[a]]
        st == Collect(heap1, newRef, << >>)
    IN  /\ Idle
        /\ engineEnabled => GoRoom(1)
        /\ heap' = st.heap
        /\ board' = st.board
        /\ turn' = BLUE
        /\ history' = st.history
        /\ engineScore' = ZeroScore
        /\ gameStarted' = TRUE
        /\ selected' = NoSelection
        /\ isEngineThinking' = FALSE
        /\ effectPending' = TRUE
        /\ UNCHANGED <<probe, engineProcess, processes>>
        /\ sent' = << >>
        /\ last' = Op("start")
        /\ UNCHANGED <<redSetup, blueSetup, gameMode, engineEnabled, timeControl,
                       outstanding>>
        /\ stale' = StaleNext

\* variant: undoMove restores the snapshot of the first record
UndoBoardFirst(hist) == hist[1].prevBoard

\* what undoMove restores from a non-empty history
UndoBoard(hist) == hist[Len(hist)].prevBoard

UndoTurn(hist) == hist[Len(hist)].turn

UndoHistory(hist) == SubSeq(hist, 1, Len(hist) - 1)

\* the match state undoMove leaves, from heap h and non-empty history hist
UndoResult(h, hist) ==
    LET st == Collect(h, UndoBoard(hist), UndoHistory(hist))
    IN  [heap |-> st.heap, board |-> st.board, history |-> st.history,
         turn |-> UndoTurn(hist)]

\* the Undo button is disabled, and undoMove returns, on an empty history
UndoMove ==
    LET st == UndoResult(heap, history)
    IN  /\ Idle
        /\ Len(history) > 0
        /\ engineEnabled => GoRoom(1)
        /\ heap' = st.heap
        /\ board' = st.board
        /\ history' = st.history
        /\ turn' = st.turn
        /\ selected' = NoSelection
        /\ effectPending' = (UndoBoard(history) # board \/ UndoTurn(history) # turn)
        /\ UNCHANGED <<probe, engineProcess, processes>>
        /\ sent' = << >>
        /\ last' = Op("undo")
        /\ UNCHANGED <<gameStarted, redSetup, blueSetup, gameMode, engineScore,
                       engineEnabled, timeControl, isEngineThinking, outstanding>>
        /\ stale' = StaleNext

\* variant: passTurn numbers its record prev.length
PassRecordSeqOff == [seq |-> Len(history), notation |-> PassNotation,
                     turn |-> turn, prevBoard |-> board]

\* variant: the record of a pass names the side that did not pass
PassRecordOtherSide == [seq |-> Len(history) + 1, notation |-> PassNotation,
                        turn |-> Flip(turn), prevBoard |-> board]

\* the record passTurn appends
PassRecord == [seq |-> Len(history) + 1, notation |-> PassNotation,
               turn |-> turn, prevBoard |-> board]

PassTurn ==
    LET st == Collect(heap, board, Append(history, PassRecord))
    IN  /\ Idle
        /\ Len(history) < MaxHistory
        /\ engineEnabled => GoRoom(1)
        /\ heap' = st.heap
        /\ board' = st.board
        /\ history' = st.history
        /\ turn' = Flip(turn)
        /\ effectPending' = TRUE
        /\ UNCHANGED <<probe, engineProcess, processes>>
        /\ sent' = << >>
        /\ last' = Op("pass")
        /\ UNCHANGED <<gameStarted, redSetup, blueSetup, gameMode, selected,
                       engineScore, engineEnabled, timeControl, isEngineThinking,
                       outstanding>>
        /\ stale' = StaleNext

\* the Resign button is disabled while the game is not started
Resign ==
    /\ Idle
    /\ gameStarted
    /\ gameStarted' = FALSE
    /\ effectPending' = TRUE
    /\ UNCHANGED <<probe, engineProcess, processes>>
    /\ sent' = << >>
    /\ last' = Op("resign")
    /\ UNCHANGED <<heap, board, turn, redSetup, blueSetup, gameMode, selected, history,
                   engineScore, engineEnabled, timeControl, isEngineThinking,
                   outstanding>>
    /\ stale' = StaleNext

\* --------------------------------------------------- App: the controls

\* the Start/Stop Calculation button
ToggleEngine ==
    /\ Idle
    /\ ~engineEnabled => GoRoom(1)
    /\ engineEnabled' = ~engineEnabled
    /\ effectPending' = TRUE
    /\ UNCHANGED <<probe, engineProcess, processes>>
    /\ sent' = << >>
    /\ last' = Op("toggle")
    /\ UNCHANGED <<heap, board, turn, gameStarted, redSetup, blueSetup, gameMode,
                   selected, history, engineScore, timeControl, isEngineThinking,
                   outstanding>>
    /\ stale' = StaleNext

SetGameMode(m) ==
    /\ Idle
    /\ m # gameMode
    /\ gameMode' = m
    /\ UNCHANGED <<probe, engineProcess, processes>>
    /\ sent' = << >>
    /\ last' = NoOp
    /\ UNCHANGED <<heap, board, turn, gameStarted, redSetup, blueSetup, selected,
                   history, engineScore, engineEnabled, timeControl, isEngineThinking,
                   effectPending, outstanding>>
    /\ stale' = StaleNext

SetRedSetup(s) ==
    /\ Idle
    /\ s # redSetup
    /\ redSetup' = s
    /\ UNCHANGED <<probe, engineProcess, processes>>
    /\ sent' = << >>
    /\ last' = NoOp
    /\ UNCHANGED <<heap, board, turn, gameStarted, blueSetup, gameMode, selected,
                   history, engineScore, engineEnabled, timeControl, isEngineThinking,
                   effectPending, outstanding>>
    /\ stale' = StaleNext

SetBlueSetup(s) ==
    /\ Idle
    /\ s # blueSetup
    /\ blueSetup' = s
    /\ UNCHANGED <<probe, engineProcess, processes>>
    /\ sent' = << >>
    /\ last' = NoOp
    /\ UNCHANGED <<heap, board, turn, gameStarted, redSetup, gameMode, selected,
                   history, engineScore, engineEnabled, timeControl, isEngineThinking,
                   effectPending, outstanding>>
    /\ stale' = StaleNext

\* parseInt(value): the digits after an optional sign, NaN without one digit
parseInt(value) ==
    LET signed == Len(value) > 0 /\ value[1] \in {"-", "+"}
        ds == DigitRun(value, IF signed THEN 2 ELSE 1)
    IN  IF ds = << >> THEN [nan |-> TRUE, value |-> 0]
        ELSE [nan |-> FALSE,
              value |-> (IF value[1] = "-" THEN -1 ELSE 1) * DigitsValue(ds)]

\* Math.max(1, parseInt(e.target.value) || 1): NaN and 0 are falsy
ThinkTime(value) ==
    LET n == parseInt(value)
        v == IF n.nan \/ n.value = 0 THEN 1 ELSE n.value
    IN  IF v > 1 THEN v ELSE 1

\* onChange of the think-time input
SetTimeControl(value) ==
    /\ Idle
    /\ timeControl' = ThinkTime(value)
    /\ UNCHANGED <<probe, engineProcess, processes>>
    /\ sent' = << >>
    /\ last' = NoOp
    /\ UNCHANGED <<heap, board, turn, gameStarted, redSetup, blueSetup, gameMode,
                   selected, history, engineScore, engineEnabled, isEngineThinking,
                   effectPending, outstanding>>
    /\ stale' = StaleNext

\* ----------------------------------- App: the board/turn effect, engine turn

\* shouldEngineMove of checkEngineMove
ShouldEngineMove ==
    \/ gameMode = "CvC"
    \/ gameMode = "PvC" /\ turn = RED
    \/ gameMode = "CvP" /\ turn = BLUE

\* checkEngineMove gets as far as requestEngineMove
RequestsEngineMove ==
    engineEnabled /\ gameStarted /\ ~isEngineThinking /\ ShouldEngineMove

\* requestEngineMove: generateFen(board, turn) and timeControl of the render
\* whose effect runs
RequestCommands == SearchCommands(generateFen(Cells, turn), timeControl)

\* useEffect(..., [board, turn, gameStarted, engineEnabled]): checkEngineMove, and
\* requestEngineMove, which sets the flag and sends 'position fen' and 'go movetime'
RunEffect ==
    /\ effectPending
    /\ effectPending' = FALSE
    /\ IF gameStarted /\ RequestsEngineMove
       THEN /\ isEngineThinking' = TRUE
            /\ outstanding' = outstanding + 1
       ELSE UNCHANGED <<isEngineThinking, outstanding>>
    /\ UNCHANGED <<probe, engineProcess, processes>>
    /\ sent' = IF gameStarted /\ RequestsEngineMove THEN RequestCommands ELSE << >>
    /\ last' = NoOp
    /\ UNCHANGED <<heap, board, turn, gameStarted, redSetup, blueSetup, gameMode,
                   selected, history, engineScore, engineEnabled, timeControl>>
    /\ stale' = StaleNext

\* ------------------------------------------ App: the engine-output listener

\* the score the two "Parse Score" blocks leave in engineScore
ScoreAfter(output) ==
    LET afterCp == IF Includes(output, ScoreCp) /\ NumberMatches(output, ScoreCp) # {}
                   THEN ToFixed2(NumberMatch(output, ScoreCp))
                   ELSE engineScore
    IN  IF Includes(output, ScoreMate) /\ NumberMatches(output, ScoreMate) # {}
        THEN MateStr(NumberMatch(output, ScoreMate))
        ELSE afterCp

\* moveStr && moveStr !== '(none)', for moveStr = output.split(' ')[1]
HandsMoveOn(output) ==
    LET moveStr == SplitPart1(output)
    IN  moveStr # Undefined /\ moveStr # << >> /\ moveStr # NoneToken

\* the branch the "Parse Best Move" block takes
OutputBranch(output) ==
    IF ~StartsWith(output, BestMove) THEN "no-bestmove"
    ELSE IF ~HandsMoveOn(output) THEN "no-move"
    ELSE IF ~Decodes(SplitPart1(output)) THEN "parse-error"
    ELSE LET d == DecodeMove(SplitPart1(output))
         IN  IF ExecuteMoveThrows(ListenerClosure, <<d.sr, d.sc>>, <<d.er, d.ec>>)
             THEN "throws"
             ELSE "move"

\* variant: the flag is cleared only where a move token is handed on
ClearsFlagOnMove(output) == StartsWith(output, BestMove) /\ HandsMoveOn(output)

\* isEngineThinking.current = false, the first statement of the best-move block
ClearsFlag(output) == StartsWith(output, BestMove)

\* the engine has printed a best-move line: one search request is answered
Answers(output) ==
    \/ StartsWith(output, BestMove)
    \/ Includes(output, <<"\n">> \o BestMove)

OnEngineOutput(output) ==
    LET br == OutputBranch(output)
        d == DecodeMove(SplitPart1(output))
        m == ExecuteMove(ListenerClosure, <<d.sr, d.sc>>, <<d.er, d.ec>>)
        answered == IF Answers(output) /\ outstanding > 0 THEN 1 ELSE 0
    IN  /\ Idle
        /\ engineScore' = ScoreAfter(output)
        /\ isEngineThinking' = IF ClearsFlag(output) THEN FALSE ELSE isEngineThinking
        /\ UNCHANGED <<probe, engineProcess, processes>>
        /\ sent' = IF br = "move" THEN m.commands ELSE << >>
        /\ last' = IF br = "no-bestmove" THEN NoOp
                   ELSE [op |-> "output", branch |-> br, pending |-> isEngineThinking]
        /\ IF br = "move"
           THEN /\ Len(history) < MaxHistory
                /\ heap' = m.heap
                /\ board' = m.board
                /\ history' = m.history
                /\ turn' = m.turn
                /\ selected' = NoSelection
                /\ outstanding' = outstanding - answered + m.sends
                /\ effectPending' = TRUE
           ELSE /\ outstanding' = outstanding - answered
                /\ UNCHANGED <<heap, board, history, turn, selected, effectPending>>
        /\ UNCHANGED <<gameStarted, redSetup, blueSetup, gameMode, engineEnabled,
                       timeControl>>
        /\ stale' = StaleNext

\* ------------------------------------------- main process: the engine
\* (spawn reports a missing executable by an 'error' event, not by throwing, so
\* the catch block of engine-start is never entered)

\* 'uci\n', 'setoption name Variant value janggi\n', 'isready\n'
Uci == <<"u", "c", "i", "\n">>

SetOption ==
    <<"s", "e", "t", "o", "p", "t", "i", "o", "n", " ", "n", "a", "m", "e", " ", "V",
    "a", "r", "i", "a", "n", "t", " ", "v", "a", "l", "u", "e", " ", "j", "a",
    "n", "g", "g", "i", "\n">>

IsReady == <<"i", "s", "r", "e", "a", "d", "y", "\n">>

Handshake == <<Uci, SetOption, IsReady>>

\* the state of the App and of the functions applied on their own, which the
\* main process leaves alone
rendererVars == <<heap, board, turn, gameStarted, redSetup, blueSetup, gameMode,
                  selected, history, engineScore, engineEnabled, timeControl,
                  isEngineThinking, effectPending, outstanding, sent, stale, probe>>

\* variant: engine-start never returns early
StartReturnsNever == FALSE

\* if (engineProcess) return
StartReturns == engineProcess # NoProcess

\* ipcMain.on('engine-start'): sent by the mount effect of App, at every load of
\* the page
EngineStart ==
    /\ IF StartReturns
       THEN UNCHANGED <<engineProcess, processes>>
       ELSE /\ Len(processes) < MaxProcesses
            /\ engineProcess' = Len(processes) + 1
            /\ processes' = Append(processes,
                                   [alive |-> TRUE, closed |-> FALSE, stdin |-> Handshake])
    /\ last' = [op |-> "engine-start",
                branch |-> IF StartReturns THEN "return" ELSE "spawn", pending |-> FALSE]
    /\ UNCHANGED rendererVars

\* ipcMain.on('engine-command'): engineProcess.stdin.write(command + '\n')
EngineCommand(command) ==
    /\ IF engineProcess # NoProcess
       THEN /\ Len(processes[engineProcess].stdin) < MaxStdin
            /\ processes' = [processes EXCEPT
                               ![engineProcess].stdin = Append(@, command \o <<"\n">>)]
       ELSE UNCHANGED processes
    /\ last' = Op("engine-command")
    /\ UNCHANGED <<engineProcess, rendererVars>>

\* an engine process exits; its 'close' event is delivered later
ProcessExit(pid) ==
    /\ pid \in DOMAIN processes
    /\ processes[pid].alive
    /\ processes' = [processes EXCEPT ![pid].alive = FALSE]
    /\ last' = Op("exit")
    /\ UNCHANGED <<engineProcess, rendererVars>>

\* engineProcess.on('close'): engineProcess = null
ProcessClose(pid) ==
    /\ pid \in DOMAIN processes
    /\ ~processes[pid].alive /\ ~processes[pid].closed
    /\ processes' = [processes EXCEPT ![pid].closed = TRUE]
    /\ engineProcess' = NoProcess
    /\ last' = Op("close")
    /\ UNCHANGED rendererVars

\* ipcMain.on('engine-stop'): engineProcess.kill(); engineProcess = null. The
\* 'close' event of the killed process is delivered later.
EngineStop ==
    /\ IF engineProcess # NoProcess
       THEN /\ processes' = [processes EXCEPT ![engineProcess].alive = FALSE]
            /\ engineProcess' = NoProcess
       ELSE UNCHANGED <<engineProcess, processes>>
    /\ last' = Op("engine-stop")
    /\ UNCHANGED rendererVars

\* ------------------------------------------------------------ inputs

NL == <<"\n">>

SP == <<" ">>

\* what the engine process prints, as delivered to the listener
Outputs ==
    { BestMove \o SP \o <<"a", "6", "a", "5">> \o NL,
      BestMove \o SP \o NoneToken,
      BestMove \o SP \o NoneToken \o NL,
      BestMove \o SP \o <<"a", "x">> \o NL }

\* the text "info "
Info == <<"i", "n", "f", "o", " ">>

\* What one 'data' event of the engine's stdout may carry: the process writes
\* lines, the pipe delivers them alone or several at once.
Chunks ==
    { Info \o ScoreCp \o SP \o <<"1", "2">> \o NL,
      Info \o ScoreMate \o SP \o <<"-", "2">> \o NL,
      <<"r", "e", "a", "d", "y", "o", "k">> \o NL
          \o Info \o ScoreCp \o SP \o <<"-", "3", "4">> \o SP \o <<"p", "v">> \o NL
          \o Info \o <<"x">> \o NL,
      BestMove \o SP \o <<"a", "6", "a", "5">> \o NL,
      BestMove \o SP \o NoneToken \o NL \o Info \o <<"x">> \o NL,
      Info \o ScoreCp \o SP \o <<"5">> \o NL \o BestMove \o SP \o <<"a", "6", "a", "5">> \o NL,
      Info \o <<"x">> \o NL \o BestMove \o SP \o NoneToken \o NL }

GameModeInputs == GameModes

RedSetupInputs == SetupTypes

BlueSetupInputs == {"an", "wan"}

SetupGameModeInputs == {"PvP", "CvC"}

\* ------------------------------------------------------------- Next

Next ==
    \/ StartGame
    \/ \E cell \in ClickCells : HandleSquareClick(cell[1], cell[2])
    \/ UndoMove
    \/ PassTurn
    \/ Resign
    \/ ToggleEngine
    \/ \E m \in GameModeInputs : SetGameMode(m)
    \/ RunEffect
    \/ \E output \in Outputs : OnEngineOutput(output)

Spec == Init /\ [][Next]_vars

\* The setup selectors, without the squares and without the engine's output: what
\* startGame builds from any state of the selectors, the match and the engine
\* controls.
NextSetup ==
    \/ StartGame
    \/ \E s \in RedSetupInputs : SetRedSetup(s)
    \/ \E s \in BlueSetupInputs : SetBlueSetup(s)
    \/ PassTurn
    \/ UndoMove
    \/ Resign
    \/ ToggleEngine
    \/ \E m \in SetupGameModeInputs : SetGameMode(m)
    \/ RunEffect

SpecSetup == Init /\ [][NextSetup]_vars

\* The setup selectors with all four arrangements for either side, and the
\* boards startGame builds from them, in games started, resigned and started
\* again.
NextBuild ==
    \/ StartGame
    \/ \E s \in SetupTypes : SetRedSetup(s)
    \/ \E s \in SetupTypes : SetBlueSetup(s)
    \/ Resign
    \/ RunEffect

SpecBuild == Init /\ [][NextBuild]_vars

\* what the engine answers in the games of the search requests
SearchOutputs == { BestMove \o SP \o <<"a", "6", "a", "5">> \o NL }

\* the modes of the games of the search requests
SearchGameModeInputs == {"PvP", "PvC"}

\* what is typed into the think-time input: nothing, 0, -3, 2, 2.5, 12
TimeInputs ==
    { << >>, <<"0">>, <<"-", "3">>, <<"2">>, <<"2", ".", "5">>, <<"1", "2">> }

\* The search requests: games played by clicks, passes and undos with the
\* engine switched on and off and the think time changed in between.
NextSearch ==
    \/ StartGame
    \/ \E cell \in ClickCells : HandleSquareClick(cell[1], cell[2])
    \/ UndoMove
    \/ PassTurn
    \/ ToggleEngine
    \/ \E m \in SearchGameModeInputs : SetGameMode(m)
    \/ \E value \in TimeInputs : SetTimeControl(value)
    \/ RunEffect
    \/ \E output \in SearchOutputs : OnEngineOutput(output)

SpecSearch == Init /\ [][NextSearch]_vars

\* the commands the App sends in a game: those of the request for the opening
\* position at the initial think time
CommandInputs ==
    LET request == SearchCommands(generateFen(InitBoard("an", "an"), BLUE),
                                  InitialTimeControl)
    IN  { request[i] : i \in DOMAIN request }

\* The main process: the page loaded and loaded again, commands arriving from
\* it, and engine processes that exit on their own.
NextEngine ==
    \/ EngineStart
    \/ \E command \in CommandInputs : EngineCommand(command)
    \/ \E pid \in 1..MaxProcesses : ProcessExit(pid)
    \/ \E pid \in 1..MaxProcesses : ProcessClose(pid)

SpecEngine == Init /\ [][NextEngine]_vars

\* The process wrapper under every interleaving of its handlers and of the
\* events of the engine processes.
NextWrapper ==
    \/ EngineStart
    \/ EngineStop
    \/ \E command \in CommandInputs : EngineCommand(command)
    \/ \E pid \in 1..MaxProcesses : ProcessExit(pid)
    \/ \E pid \in 1..MaxProcesses : ProcessClose(pid)

SpecWrapper == Init /\ [][NextWrapper]_vars

\* The listener on whatever the engine's stdout delivers, in a game that is
\* started, resigned and started again with the engine switched on and off.
NextListener ==
    \/ StartGame
    \/ PassTurn
    \/ Resign
    \/ ToggleEngine
    \/ \E m \in SetupGameModeInputs : SetGameMode(m)
    \/ RunEffect
    \/ \E output \in Chunks : OnEngineOutput(output)

SpecListener == Init /\ [][NextListener]_vars

\* the engine answers a search request it holds: its best-move line arrives, in
\* a chunk of its own or behind other lines
EngineAnswers ==
    /\ outstanding > 0
    /\ \E output \in Chunks : Answers(output) /\ OnEngineOutput(output)

\* The same with the scheduling the program can count on: React runs the
\* effect of a render, and the engine answers every request it holds. What the
\* user does is under no obligation.
SpecLive == SpecListener /\ WF_vars(RunEffect) /\ WF_vars(EngineAnswers)

\* ------------------------------------- janggiLogic: isValidMove on its own

\* the app's variables, which a function applied on its own leaves alone
appVars == <<heap, board, turn, gameStarted, redSetup, blueSetup, gameMode, selected,
             history, engineScore, engineEnabled, timeControl, isEngineThinking,
             effectPending, outstanding, sent, stale, engineProcess, processes,
             last>>

\* the outcome of a call that has not been made yet
NotCalled == "-"

\* what a call of isValidMove(b, start, end, t) does: it raises or it returns
isValidMoveOutcome(b, start, end, t) ==
    IF isValidMoveThrows(b, start, end, t) THEN "TypeError"
    ELSE IF isValidMove(b, start, end, t) THEN "true"
    ELSE "false"

\* the board that holds the pieces pl (cell -> piece) and nothing else
Placed(pl) ==
    [r \in Rows |-> [c \in Cols |-> IF <<r, c>> \in DOMAIN pl THEN pl[<<r, c>>] ELSE Null]]

\* initBoard gives a side this many pieces of a type, and the game adds none
InitialCount(type) ==
    CASE type = "jol" -> 5 [] type = "jang" -> 1 [] OTHER -> 2

\* no side holds more pieces of a type than it starts with
Plausible(pl) ==
    \A team \in Teams, type \in PieceTypes :
        Cardinality({ cell \in DOMAIN pl : pl[cell] = p(team, type) }) <= InitialCount(type)

\* Coordinates handed to isValidMove: the board and the ring around it.
ProbeCells == (-1..10) \X (-1..9)

\* a call of isValidMove that has not been made yet
Call(b, start, end, t) ==
    [fn |-> "isValidMove", board |-> b, start |-> start, end |-> end, turn |-> t,
     out |-> NotCalled]

\* The initial position, with every pair of coordinates.
OpeningInputs ==
    \E s \in ProbeCells, e \in ProbeCells, t \in Teams :
        probe = Call(InitBoard("an", "an"), s, e, t)

\* what may stand on a square between a cannon or chariot and its target
ScreenPieces == {Null, p(BLUE, "jol"), p(RED, "po"), p(BLUE, "po")}

\* what may stand on the target square
TargetPieces == {Null, p(BLUE, "po"), p(BLUE, "jol"), p(RED, "jol"), p(RED, "po")}

\* the pieces of the map pl that are pieces
Pieces(pl) == [cell \in { x \in DOMAIN pl : pl[x] # Null } |-> pl[cell]]

\* A Red cannon or chariot at the foot of file 1 (row 7), a target further up
\* the file, and pieces on the squares of the file between rows 2 and 7.
FileInputs ==
    \E m \in {p(RED, "po"), p(RED, "cha")}, e \in { <<r, 1>> : r \in 2..5 },
       x \in [3..6 -> ScreenPieces], y \in TargetPieces :
        LET pl == [cell \in { <<r, 1>> : r \in 2..7 } |->
                     IF cell[1] = 7 THEN m ELSE IF cell[1] = 2 THEN y ELSE x[cell[1]]]
        IN  Plausible(pl) /\ probe = Call(Placed(Pieces(pl)), <<7, 1>>, e, RED)

\* the same along row 4, from column 0 towards column 4, for a Blue piece
RankInputs ==
    \E m \in {p(BLUE, "po"), p(BLUE, "cha")}, e \in { <<4, c>> : c \in 2..4 },
       x \in [1..3 -> {Null, p(RED, "jol"), p(RED, "po")}],
       y \in {Null, p(RED, "po"), p(RED, "jol"), p(BLUE, "jol")} :
        LET pl == [cell \in { <<4, c>> : c \in 0..4 } |->
                     IF cell[2] = 0 THEN m ELSE IF cell[2] = 4 THEN y ELSE x[cell[2]]]
        IN  Plausible(pl) /\ probe = Call(Placed(Pieces(pl)), <<4, 0>>, e, BLUE)

\* the squares of the two palaces and the squares next to them
PalaceArea == ((0..3) \cup (6..9)) \X (2..6)

\* the two palaces
PalaceCells == ((0..2) \cup (7..9)) \X (3..5)

\* A cannon or chariot of either side on a palace square, any target on or
\* next to a palace, and nothing or one piece on the centre of each palace.
PalaceInputs ==
    \E s \in PalaceCells, e \in PalaceArea,
       m \in { p(team, type) : team \in Teams, type \in {"cha", "po"} },
       x \in {Null, p(BLUE, "jol"), p(RED, "po")} :
        LET pl == [cell \in {s, <<1, 4>>, <<8, 4>>} |-> IF cell = s THEN m ELSE x]
        IN  probe = Call(Placed(Pieces(pl)), s, e, m.team)

\* The Red chariot of the corner (9,0) with nothing else on the board but the
\* two generals on their palace centres, and nothing or one piece on a cell of
\* the home rank; the target is any cell of that rank or of file 0.
CornerInputs ==
    \E e \in ({9} \X (1..8)) \cup ((5..8) \X {0}),
       k \in ({9} \X (1..8)) \cup ((5..8) \X {0}),
       x \in {Null, p(RED, "sa"), p(BLUE, "jol"), p(BLUE, "ma")} :
        LET pl == [cell \in {<<9, 0>>, <<1, 4>>, <<8, 4>>, k} |->
                     IF cell = <<9, 0>> THEN p(RED, "cha")
                     ELSE IF cell = <<1, 4>> THEN p(BLUE, "jang")
                     ELSE IF cell = <<8, 4>> THEN p(RED, "jang")
                     ELSE x]
        IN  probe = Call(Placed(Pieces(pl)), <<9, 0>>, e, RED)

\* the cells of the board and of the ring around it that lie within n rows and
\* n columns of a cell
Near(cell, n) ==
    { e \in ProbeCells : Abs(e[1] - cell[1]) <= n /\ Abs(e[2] - cell[2]) <= n }

\* where the horse or elephant of the jumps stands, and whose it is
JumpStarts == { <<RED, <<9, 1>>>>, <<BLUE, <<4, 4>>>>, <<RED, <<5, 7>>>> }

\* what may stand next to a jumping or stepping piece, or on its target
StepPieces == {Null, p(BLUE, "jol"), p(RED, "jol")}

\* A horse or an elephant, any target up to three rows and three columns away,
\* and nothing or one soldier of either side on one cell of that neighbourhood.
JumpInputs ==
    \E ms \in JumpStarts, type \in {"ma", "sang"}, x \in StepPieces :
        \E e \in Near(ms[2], 3), k \in Near(ms[2], 3) \cap (Rows \X Cols) :
            LET pl == [cell \in {ms[2], k} |-> IF cell = ms[2] THEN p(ms[1], type) ELSE x]
            IN  probe = Call(Placed(Pieces(pl)), ms[2], e, ms[1])

\* A soldier, a guard or a general of either side on or next to a palace, any
\* target up to two rows and two columns away, holding nothing or a soldier.
StepInputs ==
    \E s \in PalaceArea, team \in Teams, type \in {"jol", "sa", "jang"}, x \in StepPieces :
        \E e \in Near(s, 2) :
            LET pl == [cell \in {s, e} \cap (Rows \X Cols) |->
                         IF cell = s THEN p(team, type) ELSE x]
            IN  probe = Call(Placed(Pieces(pl)), s, e, team)

InitLegal ==
    /\ AppInit
    /\ OpeningInputs \/ FileInputs \/ RankInputs \/ PalaceInputs \/ CornerInputs
       \/ JumpInputs \/ StepInputs

\* one call of isValidMove
CallIsValidMove ==
    /\ probe.fn = "isValidMove"
    /\ probe.out = NotCalled
    /\ probe' = [probe EXCEPT
                   !.out = isValidMoveOutcome(probe.board, probe.start, probe.end, probe.turn)]
    /\ UNCHANGED appVars

NextLegal == CallIsValidMove

SpecLegal == InitLegal /\ [][NextLegal]_vars

\* ------------------------------------------- applyEngineMove on its own

\* the file letters and rank digits of a move token
FileChars == {"a", "b", "c", "d", "e", "f", "g", "h", "i"}

DigitChars == {"0", "1", "2", "3", "4", "5", "6", "7", "8", "9"}

\* characters of tokens that are not moves: a file letter, the letter after
\* the last file, a digit, a letter that is neither, and the line end
TokenChars == {"a", "j", "9", "x", "\n"}

\* a call of applyEngineMove that has not been made yet
DecodeCall(moveStr) ==
    [fn |-> "applyEngineMove", moveStr |-> moveStr, out |-> NotCalled,
     start |-> << >>, end |-> << >>]

\* Every token [a-i][0-9][a-i][0-9], and every text of up to MaxTokenLen
\* characters of TokenChars.
InitDecode ==
    /\ AppInit
    /\ \/ \E f1 \in FileChars, r1 \in DigitChars, f2 \in FileChars, r2 \in DigitChars :
             probe = DecodeCall(<<f1, r1, f2, r2>>)
       \/ \E n \in 0..MaxTokenLen : \E tk \in [1..n -> TokenChars] :
             probe = DecodeCall(tk)

\* one call of applyEngineMove: it hands the coordinates to executeMove, or it
\* logs the parse error
CallApplyEngineMove ==
    LET d == DecodeMove(probe.moveStr)
    IN  /\ probe.fn = "applyEngineMove"
        /\ probe.out = NotCalled
        /\ probe' = IF Decodes(probe.moveStr)
                     THEN [probe EXCEPT !.out = "executeMove",
                                        !.start = <<d.sr, d.sc>>, !.end = <<d.er, d.ec>>]
                     ELSE [probe EXCEPT !.out = "parse-error"]
        /\ UNCHANGED appVars

NextDecode == CallApplyEngineMove

SpecDecode == InitDecode /\ [][NextDecode]_vars

\* ------------------------------------------- generateFen on its own

\* the board b with the pieces of the columns keep only
Thin(b, keep) == [r \in Rows |-> [c \in Cols |-> IF c \in keep THEN b[r][c] ELSE Null]]

\* the setups of the boards handed to generateFen
FenRedSetups == SetupTypes

FenBlueSetups == {"an", "wan"}

\* The initial position of a setup pair with the pieces of any set of columns
\* taken off, for either side to move.
InitFen ==
    /\ AppInit
    /\ \E rs \in FenRedSetups, bs \in FenBlueSetups, keep \in SUBSET Cols, t \in Teams :
          probe = [fn |-> "generateFen", board |-> Thin(InitBoard(rs, bs), keep),
                   turn |-> t, out |-> NotCalled, fen |-> << >>]

\* one call of generateFen
CallGenerateFen ==
    /\ probe.fn = "generateFen"
    /\ probe.out = NotCalled
    /\ probe' = [probe EXCEPT !.out = "returned",
                              !.fen = generateFen(probe.board, probe.turn)]
    /\ UNCHANGED appVars

NextFen == CallGenerateFen

SpecFen == InitFen /\ [][NextFen]_vars

\* ------------------------------------------------------- properties

\* a step of handleSquareClick
ClickStep == \E cell \in ClickCells : HandleSquareClick(cell[1], cell[2])

\* a step of the listener on a chunk that starts with a best-move line
BestMoveStep ==
    \E output \in Outputs : StartsWith(output, BestMove) /\ OnEngineOutput(output)

\* the match is over by resignation: not started, on the board of a started game
Resigned == ~gameStarted /\ Cells # EmptyArray

\* the record a step has appended to the history
Appended == history'[Len(history')]

\* a step has appended one record to the history
Appends == Len(history') = Len(history) + 1

\* record a without its snapshot reference
Plain(a) == [seq |-> a.seq, notation |-> a.notation, turn |-> a.turn]

\* C1: a best-move line that arrives while no engine request is pending leaves
\* the board, the side to move and the history as they were.
C1_StrayBestMoveIgnored ==
    [][(BestMoveStep /\ ~isEngineThinking) => UNCHANGED matchVars]_vars

\* C1: a well-formed best-move line has arrived, with no request pending, in a
\* started game with a record in its history.
C1_Witness ==
    /\ last.op = "output" /\ last.branch = "throws" /\ ~last.pending
    /\ gameStarted /\ Len(history) > 0

\* a step of the listener on a best-move line whose token is the sentinel
\* '(none)', as the last text of the line or before the line's end
NoneStep ==
    \E output \in Outputs :
        /\ output \in {BestMove \o SP \o NoneToken, BestMove \o SP \o NoneToken \o NL}
        /\ OnEngineOutput(output)

RECURSIVE Lines(_)
Lines(s) ==
    LET nl == { i \in 1..Len(s) : s[i] = "\n" }
    IN  IF s = << >> THEN << >>
        ELSE IF nl = {} THEN <<s>>
        ELSE <<SubSeq(s, 1, SetMin(nl) - 1)>> \o Lines(SubSeq(s, SetMin(nl) + 1, Len(s)))

\* the lines of s that are best-move lines
BestMoveLines(s) == SelectSeq(Lines(s), LAMBDA l : StartsWith(l, BestMove))

\* the lines of s that carry a score
ScoreLines(s) ==
    SelectSeq(Lines(s), LAMBDA l : Includes(l, ScoreCp) \/ Includes(l, ScoreMate))

\* C12: every line of a delivery is classified on its own: a delivery that
\* holds a best-move line leaves no request pending, wherever in the delivery
\* the line stands, and a delivery that holds one score line leaves that line's
\* score in engineScore.
C12_LinesClassifiedAlone ==
    [][\A output \in Chunks : OnEngineOutput(output) =>
         /\ BestMoveLines(output) # << >> => ~isEngineThinking'
         /\ Len(ScoreLines(output)) = 1 =>
               engineScore' = ScoreAfter(ScoreLines(output)[1])]_vars

\* the cell lies on the board
InBounds(cell) == cell[1] \in Rows /\ cell[2] \in Cols

\* isValidMove has been called and has raised or returned
Called == probe.fn = "isValidMove" /\ probe.out # NotCalled

\* C13: isValidMove returns false, and raises nothing, when the source or the
\* destination lies off the board.
C13_OffBoardIsFalse ==
    (Called /\ ~(InBounds(probe.start) /\ InBounds(probe.end))) => probe.out = "false"

\* applyEngineMove has been called
Decoded == probe.fn = "applyEngineMove" /\ probe.out # NotCalled

\* the text has the shape [a-i][0-9][a-i][0-9]
WellFormed(tk) ==
    /\ Len(tk) = 4
    /\ tk[1] \in FileChars /\ tk[2] \in DigitChars
    /\ tk[3] \in FileChars /\ tk[4] \in DigitChars

\* the files in order, column 0 first
FileLetters == <<"a", "b", "c", "d", "e", "f", "g", "h", "i">>

\* the token of the coordinates: letter of the column, digit 9 - row
Encode(start, end) ==
    <<FileLetters[start[2] + 1], Digits[9 - start[1] + 1],
      FileLetters[end[2] + 1], Digits[9 - end[1] + 1]>>

\* C14: applyEngineMove hands a move on for the tokens of the shape
\* [a-i][0-9][a-i][0-9] and for no other text; every other text ends in the
\* parse error.
C14_OnlyWellFormedDecodes ==
    Decoded => (probe.out = "executeMove" <=> WellFormed(probe.moveStr))

\* C15: for a token of the shape [a-i][0-9][a-i][0-9], applyEngineMove hands on
\* coordinates on the board, the column the index of the file letter and the
\* row 9 minus the rank digit, and the letters and digits of those
\* coordinates are the token again.
C15_DecodeRoundTrip ==
    (Decoded /\ WellFormed(probe.moveStr)) =>
        /\ probe.out = "executeMove"
        /\ InBounds(probe.start) /\ InBounds(probe.end)
        /\ FileLetters[probe.start[2] + 1] = probe.moveStr[1]
        /\ FileLetters[probe.end[2] + 1] = probe.moveStr[3]
        /\ Digits[9 - probe.start[1] + 1] = probe.moveStr[2]
        /\ Digits[9 - probe.end[1] + 1] = probe.moveStr[4]
        /\ Encode(probe.start, probe.end) = probe.moveStr

\* C15: the token i9a0 has been decoded: the top right and the bottom left corner.
C15_Witness ==
    /\ Decoded /\ probe.moveStr = <<"i", "9", "a", "0">>
    /\ probe.start = <<0, 8>> /\ probe.end = <<9, 0>>

\* the parts of the text s between the separators sep
RECURSIVE Split(_, _)
Split(s, sep) ==
    LET at == { i \in 1..Len(s) : s[i] = sep }
    IN  IF at = {} THEN <<s>>
        ELSE <<SubSeq(s, 1, SetMin(at) - 1)>> \o Split(SubSeq(s, SetMin(at) + 1, Len(s)), sep)

\* the piece a letter of a rank string stands for: upper case Red, lower case
\* Blue, one letter per type
Letter(ch) ==
    CASE ch = "R" -> p(RED, "cha")   [] ch = "r" -> p(BLUE, "cha")
      [] ch = "N" -> p(RED, "ma")    [] ch = "n" -> p(BLUE, "ma")
      [] ch = "E" -> p(RED, "sang")  [] ch = "e" -> p(BLUE, "sang")
      [] ch = "C" -> p(RED, "po")    [] ch = "c" -> p(BLUE, "po")
      [] ch = "A" -> p(RED, "sa")    [] ch = "a" -> p(BLUE, "sa")
      [] ch = "K" -> p(RED, "jang")  [] ch = "k" -> p(BLUE, "jang")
      [] ch = "P" -> p(RED, "jol")   [] ch = "p" -> p(BLUE, "jol")

\* the cells a rank string stands for: a digit is that many empty cells
RECURSIVE Expand(_)
Expand(rank) ==
    IF rank = << >> THEN << >>
    ELSE (IF IsDigit(rank[1]) THEN [i \in 1..DigitVal(rank[1]) |-> Null]
          ELSE <<Letter(rank[1])>>)
         \o Expand(SubSeq(rank, 2, Len(rank)))

\* generateFen has returned
FenReturned == probe.fn = "generateFen" /\ probe.out # NotCalled

\* C16: the text generateFen returns is six fields separated by single spaces.
\* The first is ten rank strings separated by '/', row 0 first, each of them
\* letters and digits 1..9 with no two digits side by side, standing for
\* exactly nine cells, which are the cells of that row of the board. The second
\* is 'w' for Red to move and 'b' for Blue. The others are '-', '-', '0', '1'.
C16_FenReadsBack ==
    FenReturned =>
        LET fields == Split(probe.fen, " ")
            ranks == Split(fields[1], "/")
        IN  /\ Len(fields) = 6
            /\ Len(ranks) = 10
            /\ \A r \in Rows :
                 LET rank == ranks[r + 1]
                 IN  /\ \A i \in DOMAIN rank :
                          /\ rank[i] # "0"
                          /\ (i > 1 /\ IsDigit(rank[i])) => ~IsDigit(rank[i - 1])
                     /\ Len(Expand(rank)) = 9
                     /\ \A c \in Cols : Expand(rank)[c + 1] = probe.board[r][c]
            /\ fields[2] = <<IF probe.turn = RED THEN "w" ELSE "b">>
            /\ <<fields[3], fields[4], fields[5], fields[6]>>
                 = << <<"-">>, <<"-">>, <<"0">>, <<"1">> >>

\* C16: generateFen has returned for Red to move on a board with pieces of both
\* sides, an empty row and a row that starts and ends with empty cells.
C16_Witness ==
    /\ FenReturned /\ probe.turn = RED
    /\ probe.board[0][0] = Null /\ probe.board[0][8] = Null
    /\ probe.board[0][3] = p(BLUE, "sa") /\ probe.board[9][5] = p(RED, "sa")

\* isValidMove has been called with both cells on the board
CalledOnBoard == Called /\ InBounds(probe.start) /\ InBounds(probe.end)

\* the arguments of the call: the cell moved from, the cell moved to
Source == probe.board[probe.start[1]][probe.start[2]]

Target == probe.board[probe.end[1]][probe.end[2]]

\* C17: isValidMove returns false when source and destination are the same
\* cell, when the source cell is empty, when the piece on it is not of the side
\* to move, and when the destination holds a piece of the mover's side.
C17_PreconditionsRejected ==
    (/\ CalledOnBoard
     /\ \/ probe.start = probe.end
        \/ Source = Null
        \/ Source.team # probe.turn
        \/ (Target # Null /\ Target.team = probe.turn))
    => probe.out = "false"

\* C17: the Blue chariot of the corner has been tried on the square of the
\* horse next to it, free of anything in between, in the initial position.
C17_Witness ==
    /\ CalledOnBoard /\ probe.turn = BLUE
    /\ probe.start = <<0, 0>> /\ probe.end = <<0, 1>>
    /\ Source = p(BLUE, "cha") /\ Target = p(BLUE, "ma")

\* the cells strictly between two cells of one row, column or diagonal
BetweenCells(a, b) ==
    { cell \in Rows \X Cols :
        \E k \in 1..9 :
            /\ k < Abs(b[1] - a[1]) \/ k < Abs(b[2] - a[2])
            /\ cell = <<a[1] + k * Sign(b[1] - a[1]), a[2] + k * Sign(b[2] - a[2])>> }

\* the pieces that stand between the source and the destination of the call
Screens == { cell \in BetweenCells(probe.start, probe.end) :
               probe.board[cell[1]][cell[2]] # Null }

\* the call moves along a row or a column
Straight == probe.start[1] = probe.end[1] \/ probe.start[2] = probe.end[2]

\* the call moves a piece of this type of the side to move to another cell
\* that holds no piece of that side
Moves(type) ==
    /\ CalledOnBoard /\ probe.start # probe.end
    /\ Source = p(probe.turn, type)
    /\ ~(Target # Null /\ Target.team = probe.turn)

\* C18: a cannon moved along a row or a column to a cell not held by its own
\* side is legal exactly when one piece stands between source and destination
\* and the destination holds no cannon.
C18_CannonNeedsOneScreen ==
    (Moves("po") /\ Straight) =>
        (probe.out = "true" <=>
            (Cardinality(Screens) = 1 /\ ~(Target # Null /\ Target.type = "po")))

\* C18: the Red cannon of (7,1) has been tried on the empty cell (2,1) with the
\* one piece of (5,1) between, and found legal.
C18_Witness ==
    /\ Moves("po") /\ probe.start = <<7, 1>> /\ probe.end = <<2, 1>>
    /\ Target = Null /\ Screens = {<<5, 1>>}
    /\ probe.out = "true"

\* the call moves along a diagonal
Diagonal == Abs(probe.end[1] - probe.start[1]) = Abs(probe.end[2] - probe.start[2])

\* C19: a cannon move is illegal when its destination holds a cannon, and when
\* the one piece between source and destination is a cannon, of either side.
C19_CannonNeverJumpsCannon ==
    (/\ Moves("po") /\ (Straight \/ Diagonal)
     /\ \/ (Target # Null /\ Target.type = "po")
        \/ \E cell \in Screens :
              Screens = {cell} /\ probe.board[cell[1]][cell[2]].type = "po")
    => probe.out = "false"

\* the four palace diagonals: corner, centre, corner
PalaceDiagonals ==
    { {<<0, 3>>, <<1, 4>>, <<2, 5>>}, {<<0, 5>>, <<1, 4>>, <<2, 3>>},
      {<<7, 3>>, <<8, 4>>, <<9, 5>>}, {<<7, 5>>, <<8, 4>>, <<9, 3>>} }

\* C20: a chariot or cannon move that is not along a row or column is legal
\* only between two cells of one palace diagonal, with nothing between for the
\* chariot and exactly one piece between for the cannon.
C20_DiagonalOnlyOnPalaceLines ==
    ((Moves("cha") \/ Moves("po")) /\ ~Straight /\ probe.out = "true") =>
        /\ \E line \in PalaceDiagonals : probe.start \in line /\ probe.end \in line
        /\ Cardinality(Screens) = IF Source.type = "cha" THEN 0 ELSE 1

\* C21: a chariot moved along a row or a column to a cell not held by its own
\* side is legal exactly when no cell strictly between source and destination
\* holds a piece.
C21_ChariotNeedsClearLine ==
    (Moves("cha") /\ Straight) => (probe.out = "true" <=> Screens = {})

\* C21: the Red chariot of (9,0) has been tried on (9,8) along a home rank that
\* holds nothing, and found legal, the only other pieces being the generals.
C21_Witness ==
    /\ Moves("cha") /\ probe.start = <<9, 0>> /\ probe.end = <<9, 8>>
    /\ \A c \in 1..8 : probe.board[9][c] = Null
    /\ probe.board[1][4] = p(BLUE, "jang") /\ probe.board[8][4] = p(RED, "jang")
    /\ probe.out = "true"

\* the displacement of the call, in rows and in columns
Dy == probe.end[1] - probe.start[1]

Dx == probe.end[2] - probe.start[2]

\* the call moves by a rows and b columns, or by b rows and a columns
Shape(a, b) == (Abs(Dy) = a /\ Abs(Dx) = b) \/ (Abs(Dy) = b /\ Abs(Dx) = a)

\* the cell next to the source along the longer displacement
LongStep ==
    IF Abs(Dy) > Abs(Dx) THEN <<probe.start[1] + Sign(Dy), probe.start[2]>>
    ELSE <<probe.start[1], probe.start[2] + Sign(Dx)>>

\* the cell next to the source along the shorter displacement
ShortStep ==
    IF Abs(Dy) < Abs(Dx) THEN <<probe.start[1] + Sign(Dy), probe.start[2]>>
    ELSE <<probe.start[1], probe.start[2] + Sign(Dx)>>

\* the cell one diagonal step further towards the destination
Onward(cell) == <<cell[1] + Sign(Dy), cell[2] + Sign(Dx)>>

\* the cell of the board of the call holds nothing
Free(cell) == cell \in Rows \X Cols /\ probe.board[cell[1]][cell[2]] = Null

\* C22: a horse moved to a cell not held by its own side is legal exactly when
\* it moves by one and two and the cell next to the source along the longer
\* displacement is empty.
C22_HorseLeg ==
    Moves("ma") => (probe.out = "true" <=> (Shape(1, 2) /\ Free(LongStep)))

\* C22: the Red horse of (9,1) has been tried on (7,2) with (8,1) empty and
\* found legal.
C22_Witness ==
    /\ Moves("ma") /\ probe.start = <<9, 1>> /\ probe.end = <<7, 2>>
    /\ Free(<<8, 1>>) /\ probe.out = "true"

OwnPalace(team) == (IF team = BLUE THEN 0..2 ELSE 7..9) \X (3..5)

\* the row step that takes a soldier of a side forward
Forward(team) == IF team = BLUE THEN 1 ELSE -1

\* C24: a soldier moved to a cell not held by its own side is legal exactly
\* when it steps one cell sideways, one cell forward, or one cell diagonally
\* forward between two cells of its own palace.
C24_SoldierSteps ==
    Moves("jol") =>
        (probe.out = "true" <=>
            \/ Dy = 0 /\ Abs(Dx) = 1
            \/ Dx = 0 /\ Dy = Forward(probe.turn)
            \/ /\ Abs(Dx) = 1 /\ Dy = Forward(probe.turn)
               /\ probe.start \in OwnPalace(probe.turn)
               /\ probe.end \in OwnPalace(probe.turn))

\* C24: the Red soldier of (8,3) has been tried on (7,4), diagonally forward
\* inside the Red palace, and found legal.
C24_Witness ==
    /\ Moves("jol") /\ probe.turn = RED
    /\ probe.start = <<8, 3>> /\ probe.end = <<7, 4>>
    /\ probe.out = "true"

\* the centre of the palace of a side
PalaceCentre(team) == IF team = BLUE THEN <<1, 4>> ELSE <<8, 4>>

\* C25: a guard or general moved to a cell not held by its own side is legal
\* exactly when the destination lies in its own palace and the move is one
\* step along a row or column, or one diagonal step from or to the centre of
\* the palace.
C25_PalacePieces ==
    (Moves("sa") \/ Moves("jang")) =>
        (probe.out = "true" <=>
            /\ probe.end \in OwnPalace(probe.turn)
            /\ \/ Abs(Dy) + Abs(Dx) = 1
               \/ /\ Abs(Dy) = 1 /\ Abs(Dx) = 1
                  /\ PalaceCentre(probe.turn) \in {probe.start, probe.end})

\* C25: the Blue guard of (0,3) has been tried on the centre (1,4) of its
\* palace, one diagonal step away, and found legal.
C25_Witness ==
    /\ Moves("sa") /\ probe.turn = BLUE
    /\ probe.start = <<0, 3>> /\ probe.end = <<1, 4>>
    /\ probe.out = "true"

\* the home rank of a side
HomeRank(team) == IF team = BLUE THEN 0 ELSE 9

\* the files on which an arrangement puts the two horses; the elephants take
\* the other two of the files 1, 2, 6, 7
HorseFiles(setup) ==
    CASE setup = "wan"   -> {1, 6}
      [] setup = "oreun" -> {2, 7}
      [] setup = "an"    -> {1, 7}
      [] setup = "bak"   -> {2, 6}

\* the cells of a board that hold a piece
Holding(b, piece) == { cell \in Rows \X Cols : b[cell[1]][cell[2]] = piece }

\* a board with all 90 cells defined, one general per side on its palace
\* centre, chariots on both edge files of the home ranks, guards on files 3
\* and 5, and horses and elephants on files 1, 2, 6, 7 as the setups order them
WellBuilt(b, rs, bs) ==
    /\ DOMAIN b = Rows
    /\ \A r \in Rows :
          /\ DOMAIN b[r] = Cols
          /\ \A c \in Cols :
                b[r][c] \in {Null} \cup { p(team, type) : team \in Teams, type \in PieceTypes }
    /\ \A team \in Teams :
          LET row == HomeRank(team)
              setup == IF team = RED THEN rs ELSE bs
          IN  /\ Holding(b, p(team, "jang")) = {PalaceCentre(team)}
              /\ Holding(b, p(team, "cha")) = {<<row, 0>>, <<row, 8>>}
              /\ Holding(b, p(team, "sa")) = {<<row, 3>>, <<row, 5>>}
              /\ Holding(b, p(team, "ma")) = {row} \X HorseFiles(setup)
              /\ Holding(b, p(team, "sang")) = {row} \X ({1, 2, 6, 7} \ HorseFiles(setup))

\* C26: for every pair of setups, the board startGame builds has all 90 cells
\* defined, one general per side on its palace centre, chariots on both edge
\* files of each home rank, guards on their fixed cells, and two horses and two
\* elephants on files 1, 2, 6, 7 in the order of the side's arrangement.
C26_BoardWellBuilt ==
    [][StartGame => WellBuilt(heap'[board'], redSetup, blueSetup)]_vars

\* C26: startGame has built the board for the outer elephant arrangement of
\* Red and the right elephant arrangement of Blue.
C26_Witness ==
    /\ last.op = "start" /\ history = << >>
    /\ redSetup = "bak" /\ blueSetup = "oreun"
    /\ Cells[9][1] = p(RED, "sang") /\ Cells[9][6] = p(RED, "ma")
    /\ Cells[0][1] = p(BLUE, "sang") /\ Cells[0][6] = p(BLUE, "sang")

\* a step has kept every record the history had
KeepsRecords ==
    \A i \in DOMAIN history :
        /\ Plain(history'[i]) = Plain(history[i])
        /\ heap'[history'[i].prevBoard] = heap[history[i].prevBoard]

\* the board that holds nothing
EmptyBoard == [r \in Rows |-> [c \in Cols |-> Null]]

\* the cells in which two boards differ
Changed(a, b) == { cell \in Rows \X Cols : a[cell[1]][cell[2]] # b[cell[1]][cell[2]] }

\* C29: a click that applies a move changes exactly two cells of the board, the
\* source, left empty, and the destination, left with the moved piece; it adds
\* to the history exactly one record, holding the board before the move and the
\* side that moved, and hands the move to the other side.
C29_MoveChangesTwoCells ==
    [][(ClickStep /\ history' # history) =>
         LET from == Appended.notation.from
             to == Appended.notation.to
         IN  /\ Appends /\ KeepsRecords
             /\ ~Appended.notation.pass
             /\ Changed(Cells, heap'[board']) = {from, to}
             /\ from # to
             /\ heap'[board'][from[1]][from[2]] = Null
             /\ heap'[board'][to[1]][to[2]] = Cells[from[1]][from[2]]
             /\ heap'[Appended.prevBoard] = Cells
             /\ Appended.turn = turn
             /\ turn' \in Teams \ {turn}]_vars

\* C29: a click has applied a capture: the third move of the game has left 31
\* pieces on the board.
C29_Witness ==
    /\ last.op = "click" /\ last.branch = "move"
    /\ Len(history) = 3 /\ \A i \in DOMAIN history : ~history[i].notation.pass
    /\ Cardinality(Changed(Cells, EmptyBoard)) = 31

\* C30: passTurn adds to the history exactly one record, marked as a pass and
\* holding the side that passed and the current board, hands the move to the
\* other side and leaves every cell of the board as it was.
C30_PassKeepsBoard ==
    [][PassTurn =>
         /\ Appends /\ KeepsRecords
         /\ Appended.notation.pass
         /\ Appended.turn = turn
         /\ Appended.prevBoard = board'
         /\ heap'[board'] = Cells
         /\ turn' \in Teams \ {turn}]_vars

\* C30: Red has passed after a move of Blue, in a started game.
C30_Witness ==
    /\ last.op = "pass" /\ gameStarted /\ Len(history) = 2
    /\ ~history[1].notation.pass
    /\ history[2].notation.pass /\ history[2].turn = RED
    /\ history[2].prevBoard = board

\* the lines of the handshake among the lines written to a process
HandshakeLines(stdin) == { i \in DOMAIN stdin : stdin[i] \in {Uci, SetOption, IsReady} }

\* an engine process is running
Running == \E pid \in DOMAIN processes : processes[pid].alive

\* C27: the first three lines written to every engine process are 'uci',
\* 'setoption name Variant value janggi' and 'isready', in that order, and none
\* of them is written to it again, so that every position and go command a
\* process gets comes after its handshake; and a start request that arrives
\* while a process is running starts no process and writes nothing.
C27_HandshakeOncePerProcess ==
    /\ [](\A pid \in DOMAIN processes :
            /\ Len(processes[pid].stdin) >= 3
            /\ processes[pid].stdin[1] = <<"u", "c", "i", "\n">>
            /\ processes[pid].stdin[2] = SetOption
            /\ processes[pid].stdin[3] = IsReady
            /\ HandshakeLines(processes[pid].stdin) = 1..3)
    /\ [][(EngineStart /\ Running) => processes' = processes]_vars

\* C27: a second engine process, started after the first has exited, has got
\* its handshake and then a position and a go command, and a start request has
\* arrived since and returned.
C27_Witness ==
    /\ Len(processes) = 2 /\ ~processes[1].alive /\ processes[2].alive
    /\ Len(processes[1].stdin) = 5 /\ Len(processes[2].stdin) = 5
    /\ StartsWith(processes[2].stdin[4], PositionFen)
    /\ StartsWith(processes[2].stdin[5], GoMovetime)
    /\ last.op = "engine-start" /\ last.branch = "return"

\* C28: the think time is at least one second, and whatever a handler sends is
\* one search request: 'position fen' with the line generateFen gives for the
\* board and the side to move the handler leaves, and then 'go movetime' with
\* the think time in milliseconds.
C28_SearchRequests ==
    /\ [](timeControl >= 1)
    /\ [][sent' # << >> =>
            sent' = <<PositionFen \o generateFen(heap'[board'], turn'),
                      GoMovetime \o NatStr(timeControl' * 1000)>>]_vars

\* C28: a click has applied a move of Blue with the engine on and a think time
\* of two seconds, and the analysis request has gone out.
C28_Witness ==
    /\ last.op = "click" /\ last.branch = "move"
    /\ turn = RED /\ timeControl = 2
    /\ Len(sent) = 2
    /\ sent[2] = GoMovetime \o <<"2", "0", "0", "0">>

\* a step of the listener on a best-move line whose token applyEngineMove
\* decodes to two cells
MoveLineStep ==
    \E output \in Outputs :
        /\ StartsWith(output, BestMove) /\ HandsMoveOn(output)
        /\ Decodes(SplitPart1(output))
        /\ OnEngineOutput(output)

\* C31: a best-move line with a move token that answers a pending request of
\* a started game with the engine on applies the move to the current board:
\* the board that follows is the current one with the piece moved, and the
\* history gets one record more, carrying the side that was to move.
C31_EngineMoveOnCurrentState ==
    [][(gameStarted /\ engineEnabled /\ isEngineThinking /\ outstanding > 0
          /\ MoveLineStep) =>
         /\ Appends
         /\ Appended.turn = turn
         /\ Changed(Cells, heap'[board']) \subseteq
               {Appended.notation.from, Appended.notation.to}
         /\ heap'[board'][Appended.notation.to[1]][Appended.notation.to[2]] =
               Cells[Appended.notation.from[1]][Appended.notation.from[2]]]_vars

\* C34: while the game is not started, passTurn and undoMove leave the board,
\* the side to move and the history as they were.
C34_IdleWhenNotStarted ==
    [][(~gameStarted /\ (PassTurn \/ UndoMove)) => UNCHANGED matchVars]_vars

\* C32: a best-move line that arrives after the board or the side to move has
\* changed since the search request sent last, by an undo, a pass, a move or a
\* start, leaves the board as it is.
C32_StaleReplyKeepsBoard ==
    [][(BestMoveStep /\ stale) => (board' = board /\ heap'[board'] = Cells)]_vars

\* C32: a request was pending in a started game with the engine on, the
\* position has changed since it was sent, and then a best-move line with a
\* move token has arrived.
C32_Witness ==
    /\ last.op = "output" /\ last.branch = "throws" /\ last.pending
    /\ stale /\ gameStarted /\ engineEnabled
    /\ Len(history) > 0

\* a step of the listener
OutputStep == \E output \in Outputs : OnEngineOutput(output)

\* C33: in PvP mode with the engine on, whatever the engine prints leaves the
\* board, the side to move and the history as they were.
C33_AnalysisOnlyEvaluates ==
    [][(gameMode = "PvP" /\ engineEnabled /\ OutputStep) => UNCHANGED matchVars]_vars

\* C33: in a PvP game with the engine on, a best-move line with a move token
\* has arrived after a move, which had sent its analysis request.
C33_Witness ==
    /\ last.op = "output" /\ last.branch = "throws" /\ ~last.pending
    /\ gameMode = "PvP" /\ engineEnabled /\ gameStarted /\ ~stale
    /\ Len(history) > 0 /\ ~history[Len(history)].notation.pass
    /\ outstanding = 0

\* the engine processes that are alive
Alive == { pid \in DOMAIN processes : processes[pid].alive }

\* C36: at most one engine process is alive at a time, and the handle is that
\* of the process that is alive: no close event of an earlier process clears
\* it.
C36_HandleIsLiveProcess ==
    /\ Cardinality(Alive) <= 1
    /\ \A pid \in Alive : engineProcess = pid

\* the match is a started engine-versus-engine game with the engine on
EngineGame == gameMode = "CvC" /\ engineEnabled /\ gameStarted

\* C35: in a started CvC game with the engine on, the engine answering every
\* request, a pending-request flag that is set is cleared again, unless the
\* game, the mode or the engine switch ends that game first.
C35_FlagEventuallyCleared ==
    (EngineGame /\ isEngineThinking) ~> (~isEngineThinking \/ ~EngineGame)

\* C2: no more than one 'go movetime' is ever unanswered.
C2_AtMostOneOutstanding == outstanding <= 1

\* C3: a click or a best-move line changes the board, the side to move or the
\* history only by appending the record of a move that isValidMove accepts on
\* the board and for the side of the state before it; a move it rejects changes
\* none of them.
C3_OnlyLegalMovesApplied ==
    [][(ClickStep \/ BestMoveStep) =>
         \/ UNCHANGED matchVars
         \/ /\ Appends
            /\ ~Appended.notation.pass
            /\ isValidMove(Cells, Appended.notation.from, Appended.notation.to, turn)
            /\ heap'[board'] = [Cells EXCEPT
                  ![Appended.notation.to[1]][Appended.notation.to[2]] =
                      Cells[Appended.notation.from[1]][Appended.notation.from[2]],
                  ![Appended.notation.from[1]][Appended.notation.from[2]] = Null]]_vars

\* C3: a click has applied a move.
C3_Witness == last.op = "click" /\ last.branch = "move" /\ Len(history) > 0

\* C4: in a started game, undoMove in the state a move or a pass leaves gives
\* the state before that move or pass: the same board, the same side to move
\* and the same history.
C4_UndoRestores ==
    [][(gameStarted /\ Appends) =>
         LET u == UndoResult(heap', history')
         IN  /\ u.heap[u.board] = Cells
             /\ u.turn = turn
             /\ Len(u.history) = Len(history)
             /\ \A i \in DOMAIN history :
                  /\ Plain(u.history[i]) = Plain(history[i])
                  /\ u.heap[u.history[i].prevBoard] = heap[history[i].prevBoard]]_vars

\* C4: undoMove has run in a started game and left a history that ends with a
\* move made on a board other than the live one.
C4_Witness ==
    /\ last.op = "undo" /\ gameStarted /\ Len(history) > 0
    /\ ~history[Len(history)].notation.pass

\* C5: switching the calculation off leaves no request pending, and a best-move
\* line that arrives while it is off changes nothing of the match.
C5_StopDiscardsPending ==
    [][/\ (engineEnabled /\ ~engineEnabled') => ~isEngineThinking'
       /\ (BestMoveStep /\ ~engineEnabled) => UNCHANGED matchVars]_vars

\* C6: while the game is not started, and so after a resignation, neither a
\* click nor a best-move line changes the board, the side to move or the history.
C6_NoMoveAfterResign ==
    [][(~gameStarted /\ (ClickStep \/ BestMoveStep)) => UNCHANGED matchVars]_vars

\* C6: a square has been clicked after a resignation, on a board with moves made.
C6_Witness ==
    /\ Resigned /\ last.op = "click" /\ last.branch = "not-started"
    /\ \E i \in DOMAIN history : ~history[i].notation.pass

\* C7: startGame, from any state, leaves a new board built by initBoard for the
\* two selected setups, Blue to move, an empty history, the game started and no
\* engine request pending.
C7_StartResets ==
    [][StartGame =>
         /\ heap'[board'] = InitBoard(redSetup, blueSetup)
         /\ board' # InitialBoard
         /\ turn' = BLUE
         /\ history' = << >>
         /\ gameStarted'
         /\ ~isEngineThinking']_vars

\* C7: startGame has run for two different setups.
C7_Witness ==
    /\ last.op = "start" /\ redSetup # blueSetup
    /\ Cells = InitBoard(redSetup, blueSetup)

\* C8: the record at 0-based position i of the history has seq i + 1.
C8_SequenceNumbers == \A i \in DOMAIN history : history[i].seq = i

\* C8: undoMove has left a history of two records.
C8_Witness == last.op = "undo" /\ Len(history) = 2

\* C9: the first record's side is Blue, consecutive records have opposite
\* sides, the side to move is the opposite of the last record's side, and a
\* record appended carries the side that was to move before it.
C9_Alternation ==
    /\ [](/\ Len(history) = 0 => turn = BLUE
          /\ Len(history) > 0 =>
               /\ history[1].turn = BLUE
               /\ turn \in Teams \ {history[Len(history)].turn}
          /\ \A i \in 1..(Len(history) - 1) :
               history[i + 1].turn \in Teams \ {history[i].turn})
    /\ [][Appends => (Appended.turn = turn /\ turn' \in Teams \ {turn})]_vars

\* C9: the history holds a move and then a pass.
C9_Witness ==
    /\ Len(history) >= 2
    /\ ~history[1].notation.pass
    /\ history[2].notation.pass

\* C10: the cells of the snapshot a history record holds are changed by no step.
C10_SnapshotsKept ==
    [][\A i \in DOMAIN history \cap DOMAIN history' :
         /\ Plain(history'[i]) = Plain(history[i])
         /\ heap'[history'[i].prevBoard] = heap[history[i].prevBoard]]_vars

\* C10: a record made by passTurn, whose snapshot was the live board array, and a
\* live board that has since moved on.
C10_Witness ==
    \E i \in DOMAIN history :
        /\ history[i].notation.pass
        /\ history[i].prevBoard # board
        /\ heap[history[i].prevBoard] # Cells


=============================================================================
